---- MODULE Spec2Model ----
(***************************************************************************)
(* Context Free, src-unix/posixSystem.cpp: the POSIX implementation of the *)
(* platform layer (temp files, text normalization, physical memory probe). *)
(*                                                                         *)
(* Text is modelled as sequences of code units (numbers): UTF-8 bytes,     *)
(* UTF-16 units.  A wide string is the memory of a std::wstring seen as    *)
(* 16-bit units, because normalize() hands that memory to ICU as UChar*.   *)
(* Paths are sequences of one-character strings.                           *)
(***************************************************************************)
EXTENDS Integers, Sequences, FiniteSets, TLC

VARIABLES
    layout,      \* build: width and byte order of wchar_t ("w16","w32le","w32be")
    exited,      \* process exit status, 0 while the process runs
    alive,       \* the PosixSystem object exists (constructed, not destroyed)
    mConverter,  \* PosixSystem::mConverter: "null" or "open"
    mNormalizer, \* PosixSystem::mNormalizer: "null" or "nfkc" (ICU's singleton)
    icu,         \* history: how often ICU engines were opened/obtained/closed
    calls,       \* number of normalize() calls started
    pc,          \* position of the normalize() call in progress
    src,         \* the code points the caller encoded into u8name
    u8name,      \* normalize's argument, UTF-8 bytes
    status,      \* normalize's local UErrorCode
    u16name,     \* [len, mem]: std::u16string, mem holds len+1 units
    ret,         \* [len, mem]: std::wstring, mem holds (len+1) wchar_t as 16-bit units
    dec,         \* history of the decode loop of the current call
    nf,          \* history of the NFKC loop of the current call
    outcome,     \* how the last normalize() call ended
    result,      \* the wide string the last normalize() call returned
    env,         \* the environment: TMPDIR, TEMP, TMP, each unset (<<>>) or <<value>>
    files,       \* the file system: the <<directory, entry name>> pairs that exist
    before,      \* the entries that existed before this program created any
    tpc,         \* per caller: position in tempFileForWrite
    ttype,       \* per caller: the argument tt
    tmpl,        \* per caller: the template t handed to mkstemps
    tfd,         \* per caller: what mkstemps returned
    stream,      \* per caller: the returned ostr_ptr f, "null" or "open"
    nameOut,     \* per caller: the caller's nameOut
    created,     \* history of tempFileForWrite, see NoCreated
    found,       \* the last findTempFiles(): [fresh, list]
    deleted,     \* the last deleteTempFile(): [called, existed, rc]
    dirResult,   \* what a direct call of tempFileDirectory() returned, <<>> before
    platform,    \* build: the branch of getPhysicalMemory compiled in
    probe        \* the last getPhysicalMemory(): [called, ok, bytes, result]

normVars == <<layout, exited, alive, mConverter, mNormalizer, icu, calls, pc,
              src, u8name, status, u16name, ret, dec, nf, outcome, result>>
tempVars == <<files, tpc, ttype, tmpl, tfd, stream, nameOut, created, found, deleted>>
vars == <<normVars, env, files, before, tpc, ttype, tmpl, tfd, stream, nameOut,
          created, found, deleted, dirResult, platform, probe>>

-----------------------------------------------------------------------------
(* Bounds of the model *)

\* longest input text, in code points
MaxLen == 2
\* number of normalize() calls on one object
MaxCalls == 2
\* the loop counters saturate here
IterCap == 3

-----------------------------------------------------------------------------
(* Small arithmetic and sequence helpers *)

Min(a, b) == IF a <= b THEN a ELSE b

RECURSIVE Repeat(_, _)
Repeat(s, n) == IF n <= 0 THEN <<>> ELSE s \o Repeat(s, n - 1)

RECURSIVE Flatten(_)
Flatten(ss) == IF ss = <<>> THEN <<>> ELSE Head(ss) \o Flatten(Tail(ss))

SeqsUpTo(S, n) == UNION {[1..k -> S] : k \in 0..n}

-----------------------------------------------------------------------------
(* Text: the code points used as inputs, UTF-8, UTF-16, NFKC *)

\* a, a-acute, combining acute accent, 1/2 (vulgar fraction), fi (ligature)
Alphabet == {97, 225, 769, 189, 64257}

Inputs == SeqsUpTo(Alphabet, MaxLen)

\* UTF-8 encoding of one code point of the Basic Multilingual Plane
Utf8Of(c) ==
    IF c < 128 THEN <<c>>
    ELSE IF c < 2048 THEN <<192 + (c \div 64), 128 + (c % 64)>>
    ELSE <<224 + (c \div 4096), 128 + ((c \div 64) % 64), 128 + (c % 64)>>

Utf8Encode(s) == Flatten([i \in 1..Len(s) |-> Utf8Of(s[i])])

\* what the "utf-8" converter produces: one UTF-16 unit per 1-, 2- or 3-byte
\* sequence, U+FFFD for a byte that starts no sequence
RECURSIVE Utf8ToUtf16(_)
Utf8ToUtf16(b) ==
    IF b = <<>> THEN <<>>
    ELSE IF b[1] < 128 THEN <<b[1]>> \o Utf8ToUtf16(Tail(b))
    ELSE IF b[1] >= 192 /\ b[1] < 224 /\ Len(b) >= 2
        THEN <<(b[1] - 192) * 64 + (b[2] - 128)>> \o Utf8ToUtf16(SubSeq(b, 3, Len(b)))
    ELSE IF b[1] >= 224 /\ b[1] < 240 /\ Len(b) >= 3
        THEN <<(b[1] - 224) * 4096 + (b[2] - 128) * 64 + (b[3] - 128)>>
                 \o Utf8ToUtf16(SubSeq(b, 4, Len(b)))
    ELSE <<65533>> \o Utf8ToUtf16(Tail(b))

\* compatibility decomposition of one UTF-16 unit
NfkcDecompose(c) ==
    CASE c = 64257 -> <<102, 105>>          \* fi -> f i
      [] c = 189   -> <<49, 8260, 50>>      \* 1/2 -> 1 fraction-slash 2
      [] c = 225   -> <<97, 769>>           \* a-acute -> a, acute
      [] c = 237   -> <<105, 769>>          \* i-acute -> i, acute
      [] OTHER     -> <<c>>

\* the precomposed character of a starter and the acute accent, 0 if none
Composite(base) == CASE base = 97 -> 225 [] base = 105 -> 237 [] OTHER -> 0

\* canonical composition of one more unit c onto the composed text out
ComposeStep(out, c) ==
    IF c = 769 /\ out # <<>> /\ Composite(out[Len(out)]) # 0
    THEN SubSeq(out, 1, Len(out) - 1) \o <<Composite(out[Len(out)])>>
    ELSE Append(out, c)

\* canonical composition of the first n units of s, left to right
RECURSIVE NfkcCompose(_, _)
NfkcCompose(s, n) ==
    IF n = 0 THEN <<>>
    ELSE CHOOSE v \in {ComposeStep(prev, s[n]) : prev \in {NfkcCompose(s, n - 1)}} : TRUE

\* the compatibility decomposition of a UTF-16 text
NfkcDecomposeAll(s) == Flatten([i \in 1..Len(s) |-> NfkcDecompose(s[i])])

\* the NFKC form of a UTF-16 text
Nfkc(s) == CHOOSE v \in {NfkcCompose(d, Len(d)) : d \in {NfkcDecomposeAll(s)}} : TRUE

-----------------------------------------------------------------------------
(* ICU error codes and the calling convention of ICU's transforms *)

U_FAILURE(code) == code \in {"U_BUFFER_OVERFLOW_ERROR", "U_MEMORY_ALLOCATION_ERROR",
                             "U_FILE_ACCESS_ERROR"}

\* u_terminateUChars: how a transform that produced n units for a buffer of
\* capacity cap leaves the error code
IcuTerminate(n, cap, code) ==
    IF n < cap THEN (IF code = "U_STRING_NOT_TERMINATED_WARNING" THEN "U_ZERO_ERROR" ELSE code)
    ELSE IF n = cap THEN "U_STRING_NOT_TERMINATED_WARNING"
    ELSE "U_BUFFER_OVERFLOW_ERROR"

\* the destination after the transform wrote out into it: the first
\* Min(n, cap) units, and a NUL behind them if there is room
IcuWrite(mem, out, cap) ==
    [i \in 1..Len(mem) |->
        IF i <= Min(Len(out), cap) THEN out[i]
        ELSE IF i = Len(out) + 1 /\ Len(out) < cap THEN 0
        ELSE mem[i]]

\* An ICU transform called with error code `code`: it returns 0 at once and
\* touches nothing when the code already indicates a failure; `fail` is a
\* failure of its own (not an overflow); otherwise it reports the length of
\* its complete output `out`, whether or not that fits in `cap` units.
IcuTransform(mem, cap, out, code, fail) ==
    IF U_FAILURE(code) THEN [sz |-> 0, status |-> code, mem |-> mem]
    ELSE IF fail THEN [sz |-> 0, status |-> "U_MEMORY_ALLOCATION_ERROR", mem |-> mem]
    ELSE CHOOSE r \in {[sz |-> Len(o), status |-> IcuTerminate(Len(o), cap, code),
                         mem |-> IcuWrite(mem, o, cap)] : o \in {out}} : TRUE

ucnv_toUChars(mem, cap, bytes, code, fail) ==
    IcuTransform(mem, cap, Utf8ToUtf16(bytes), code, fail)

unorm2_normalize(text, mem, cap, code, fail) ==
    IcuTransform(mem, cap, Nfkc(text), code, fail)

-----------------------------------------------------------------------------
(* std::basic_string over 16-bit units of memory *)

\* one wchar_t holding L' ' resp. L'\0', as the 16-bit units of its memory
WSpace(lay) == CASE lay = "w16" -> <<32>> [] lay = "w32le" -> <<32, 0>> [] lay = "w32be" -> <<0, 32>>
WZero(lay) == IF lay = "w16" THEN <<0>> ELSE <<0, 0>>
UnitsPerChar(lay) == IF lay = "w16" THEN 1 ELSE 2

\* basic_string(n, ' '): n characters and the terminator
NewString(n, lay) == [len |-> n, mem |-> Repeat(WSpace(lay), n) \o WZero(lay)]

\* basic_string::resize(n, ' ')
Resize(buf, n, lay) ==
    [len |-> n,
     mem |-> SubSeq(buf.mem, 1, UnitsPerChar(lay) * Min(buf.len, n))
                 \o Repeat(WSpace(lay), n - buf.len) \o WZero(lay)]

\* the characters of a std::u16string
U16Text(buf) == SubSeq(buf.mem, 1, buf.len)

\* the k-th wchar_t of a std::wstring as <<high 16 bits, low 16 bits>>
WideAt(buf, k, lay) ==
    CASE lay = "w16"   -> <<0, buf.mem[k]>>
      [] lay = "w32le" -> <<buf.mem[2 * k], buf.mem[2 * k - 1]>>
      [] lay = "w32be" -> <<buf.mem[2 * k - 1], buf.mem[2 * k]>>

WideText(buf, lay) == [k \in 1..buf.len |-> WideAt(buf, k, lay)]

\* the wide string whose characters are the given code points
Widen(s) == [i \in 1..Len(s) |-> <<0, s[i]>>]

-----------------------------------------------------------------------------
(* PosixSystem: construction, destruction, catastrophicError *)

Layouts == {"w16", "w32le", "w32be"}

NoLoop == [calls |-> 0, firstSz |-> 0, firstLen |-> 0, lastSz |-> 0, lastLen |-> 0]
NoIcu == [opens |-> 0, closes |-> 0, gets |-> 0, releases |-> 0, failed |-> FALSE]

\* one more call of a loop's transform: buffer length len, reported size sz
LoopNote(h, sz, len) ==
    [calls    |-> Min(h.calls + 1, IterCap),
     firstSz  |-> IF h.calls = 0 THEN sz ELSE h.firstSz,
     firstLen |-> IF h.calls = 0 THEN len ELSE h.firstLen,
     lastSz   |-> sz,
     lastLen  |-> len]

\* the state after PosixSystem::PosixSystem()
Constructed ==
    /\ exited = 0
    /\ alive = TRUE
    /\ mConverter = "null"
    /\ mNormalizer = "null"
    /\ icu = NoIcu
    /\ calls = 0
    /\ pc = "idle"
    /\ src = <<>>
    /\ u8name = <<>>
    /\ status = "U_ZERO_ERROR"
    /\ u16name = NewString(0, "w16")
    /\ ret = NewString(0, layout)
    /\ dec = NoLoop
    /\ nf = NoLoop
    /\ outcome = "none"
    /\ result = <<>>

\* catastrophicError: std::exit(33); the value is the process's exit status
catastrophicErrorReturns(what) == 0
catastrophicError(what) == 33

\* if (!mConverter), if (!mNormalizer)
EngineAlwaysBuilt(engine) == TRUE
EngineMissing(engine) == engine = "null"

\* PosixSystem::~PosixSystem()
Destroy ==
    /\ alive /\ exited = 0 /\ pc = "idle"
    /\ alive' = FALSE
    /\ icu' = IF mConverter # "null" THEN [icu EXCEPT !.closes = @ + 1] ELSE icu
    /\ UNCHANGED <<layout, exited, mConverter, mNormalizer, calls, pc, src, u8name,
                   status, u16name, ret, dec, nf, outcome, result>>
    /\ UNCHANGED <<env, before, platform, tempVars, dirResult, probe>>

-----------------------------------------------------------------------------
(* PosixSystem::normalize *)

\* CfdgError::Error with no builder at hand fails the conversion: control
\* does not come back to normalize
CfdgErrorThrows == TRUE

\* u16name.resize(sz + 1, L' '), ret.resize(sz + 1, L' ')
GrowStale(buf, sz, lay) == buf
Grow(buf, sz, lay) == Resize(buf, sz + 1, lay)

\* entry of normalize up to the decode loop: the engines are set up, the
\* UTF-16 buffer is allocated
NormalizeBegin(s, convOk, normOk) ==
    /\ alive /\ exited = 0 /\ pc = "idle" /\ calls < MaxCalls
    /\ LET openConv == EngineMissing(mConverter)
           conv     == IF openConv THEN (IF convOk THEN "open" ELSE "null") ELSE mConverter
           code1    == IF openConv /\ ~convOk THEN "U_FILE_ACCESS_ERROR" ELSE "U_ZERO_ERROR"
           icu1     == IF openConv /\ convOk THEN [icu EXCEPT !.opens = Min(@ + 1, IterCap)]
                       ELSE icu
           getNorm  == EngineMissing(mNormalizer)
           norm     == IF getNorm THEN (IF normOk THEN "nfkc" ELSE "null") ELSE mNormalizer
           code2    == IF getNorm /\ ~normOk THEN "U_FILE_ACCESS_ERROR" ELSE code1
           icu2     == IF getNorm /\ normOk THEN [icu1 EXCEPT !.gets = Min(@ + 1, IterCap)]
                       ELSE icu1
       IN  /\ calls' = calls + 1
           /\ src' = s
           /\ u8name' = Utf8Encode(s)
           /\ dec' = NoLoop
           /\ nf' = NoLoop
           /\ outcome' = "none"
           /\ result' = <<>>
           /\ ret' = NewString(0, layout)
           /\ IF U_FAILURE(code1)
              THEN /\ exited' = catastrophicError("No Converter")
                   /\ icu' = [icu EXCEPT !.failed = TRUE]
                   /\ status' = code1
                   /\ UNCHANGED <<mConverter, mNormalizer, pc, u16name>>
              ELSE IF U_FAILURE(code2)
              THEN /\ exited' = catastrophicError("No Normalizer")
                   /\ icu' = [icu1 EXCEPT !.failed = TRUE]
                   /\ mConverter' = conv
                   /\ status' = code2
                   /\ UNCHANGED <<mNormalizer, pc, u16name>>
              ELSE /\ mConverter' = conv
                   /\ mNormalizer' = norm
                   /\ icu' = icu2
                   /\ status' = code2
                   /\ u16name' = NewString(Len(Utf8Encode(s)), "w16")
                   /\ pc' = "decode"
                   /\ UNCHANGED exited
    /\ UNCHANGED <<layout, alive>>
    /\ UNCHANGED <<env, before, platform, tempVars, dirResult, probe>>

\* one iteration of the loop that converts from utf-8 to utf-16; leaving the
\* loop allocates the buffer of the NFKC loop
DecodeStep(fail) ==
    /\ alive /\ exited = 0 /\ pc = "decode"
    /\ \E r \in {ucnv_toUChars(u16name.mem, u16name.len + 1, u8name, status, fail)} :
           /\ status' = r.status
           /\ dec' = LoopNote(dec, r.sz, u16name.len)
           /\ IF U_FAILURE(r.status) /\ r.status # "U_BUFFER_OVERFLOW_ERROR" /\ CfdgErrorThrows
              THEN /\ outcome' = "error"
                   /\ pc' = "idle"
                   /\ u16name' = [u16name EXCEPT !.mem = r.mem]
                   /\ UNCHANGED ret
              ELSE IF r.sz <= u16name.len
              THEN /\ u16name' = Resize([u16name EXCEPT !.mem = r.mem], r.sz, "w16")
                   /\ ret' = NewString(r.sz, layout)
                   /\ pc' = "nfkc"
                   /\ UNCHANGED outcome
              ELSE /\ u16name' = Grow([u16name EXCEPT !.mem = r.mem], r.sz, "w16")
                   /\ UNCHANGED <<ret, pc, outcome>>
    /\ UNCHANGED <<layout, exited, alive, mConverter, mNormalizer, icu, calls, src,
                   u8name, nf, result>>
    /\ UNCHANGED <<env, before, platform, tempVars, dirResult, probe>>

\* one iteration of the loop that NFKC-normalizes the utf-16 text; leaving
\* the loop returns ret
NfkcStep(fail) ==
    /\ alive /\ exited = 0 /\ pc = "nfkc"
    /\ \E r \in {unorm2_normalize(U16Text(u16name), ret.mem, ret.len + 1, status, fail)} :
           /\ status' = r.status
           /\ nf' = LoopNote(nf, r.sz, ret.len)
           /\ IF U_FAILURE(r.status) /\ r.status # "U_BUFFER_OVERFLOW_ERROR" /\ CfdgErrorThrows
              THEN /\ outcome' = "error"
                   /\ pc' = "idle"
                   /\ ret' = [ret EXCEPT !.mem = r.mem]
                   /\ UNCHANGED result
              ELSE IF r.sz <= ret.len
              THEN /\ ret' = Resize([ret EXCEPT !.mem = r.mem], r.sz, layout)
                   /\ result' = WideText(Resize([ret EXCEPT !.mem = r.mem], r.sz, layout), layout)
                   /\ outcome' = "returned"
                   /\ pc' = "idle"
              ELSE /\ ret' = Grow([ret EXCEPT !.mem = r.mem], r.sz, layout)
                   /\ UNCHANGED <<pc, outcome, result>>
    /\ UNCHANGED <<layout, exited, alive, mConverter, mNormalizer, icu, calls, src,
                   u8name, u16name, dec>>
    /\ UNCHANGED <<env, before, platform, tempVars, dirResult, probe>>

-----------------------------------------------------------------------------
(* The environment and the file system the temp-file operations see *)

\* number of concurrent callers of tempFileForWrite
NumProcs == 2

Procs == 1..NumProcs

FallbackDir == <<"/", "t", "m", "p", "/">>

\* the directories that exist, spelled without a trailing separator
ExistingDirs == {<<"/", "a">>, <<"/", "b">>, <<"/", "l">>, <<"/", "w">>, <<"/", "t", "m", "p">>}
\* /l admits nothing (mode 000), /w admits creating and removing entries but
\* not listing them (mode 300)
Writable(d) == d \in ExistingDirs /\ d # <<"/", "l">>
Readable(d) == d \in ExistingDirs /\ d # <<"/", "l">> /\ d # <<"/", "w">>

\* values an environment variable can have: unset, or set to the empty
\* string, to a missing path, to a regular file, to a directory
EnvValues == {<<>>, << <<>> >>, << <<"/", "x">> >>, << <<"/", "f">> >>, << <<"/", "a">> >>,
              << <<"/", "b", "/">> >>, << <<"/", "l">> >>, << <<"/", "w">> >>}

StripSlash(path) ==
    IF Len(path) > 1 /\ path[Len(path)] = "/" THEN SubSeq(path, 1, Len(path) - 1) ELSE path

\* stat(path, &sb) == 0 && S_ISDIR(sb.st_mode)
IsDir(path) == path # <<>> /\ StripSlash(path) \in ExistingDirs

getenv(name) == env[name]

\* the position of the last separator of a path, 0 if it has none
LastSlash(path) ==
    LET at == {i \in 1..Len(path) : path[i] = "/"}
    IN  IF at = {} THEN 0 ELSE CHOOSE i \in at : \A j \in at : j <= i

\* the directory a path lies in, and its entry name there
DirOf(path) == StripSlash(SubSeq(path, 1, LastSlash(path)))
BaseOf(path) == SubSeq(path, LastSlash(path) + 1, Len(path))

HasPrefix(pre, s) == Len(s) >= Len(pre) /\ SubSeq(s, 1, Len(pre)) = pre

-----------------------------------------------------------------------------
(* AbstractSystem's tables of temp-file names *)

NumberofTempTypes == 3
TempTypes == 0..(NumberofTempTypes - 1)

TempPrefixAll == <<"c", "f", "d", "g", "-", "t", "e", "m", "p", "-">>
TempPrefixes == << TempPrefixAll \o <<"f", "i", "n", "-">>,
                   TempPrefixAll \o <<"u", "n", "f", "i", "n", "-">>,
                   TempPrefixAll \o <<"m", "o", "v", "i", "e", "-">> >>
TempSuffixes == << <<>>, <<>>, <<".", "m", "o", "v">> >>

-----------------------------------------------------------------------------
(* PosixSystem::tempFileDirectory *)

\* !tmpenv || stat(tmpenv, &sb) || !S_ISDIR(sb.st_mode)
Unusable(tmpenv) == tmpenv = <<>> \/ ~IsDir(tmpenv[1])

tempFileDirectoryTempFirst ==
    LET t1 == getenv("TEMP")
        t2 == IF Unusable(t1) THEN getenv("TMPDIR") ELSE t1
        t3 == IF Unusable(t2) THEN getenv("TMP") ELSE t2
    IN  IF Unusable(t3) THEN FallbackDir ELSE t3[1]

tempFileDirectory ==
    LET t1 == getenv("TMPDIR")
        t2 == IF Unusable(t1) THEN getenv("TEMP") ELSE t1
        t3 == IF Unusable(t2) THEN getenv("TMP") ELSE t2
    IN  IF Unusable(t3) THEN FallbackDir ELSE t3[1]

\* a direct call of tempFileDirectory()
ResolveDir ==
    /\ exited = 0 /\ dirResult = <<>>
    /\ dirResult' = <<tempFileDirectory>>
    /\ UNCHANGED <<normVars, env, before, platform, tempVars, probe>>

-----------------------------------------------------------------------------
(* PosixSystem::tempFileForWrite, deleteTempFile, findTempFiles *)

\* the replacements mkstemps can draw for XXXXXX
RandNames == {<<"A", "A", "A", "A", "A", "0">>, <<"A", "A", "A", "A", "A", "1">>}

\* a run makes as many tempFileForWrite calls as there are temp types
MaxCreates == NumberofTempTypes

\* dirname, with a separator appended unless it ends in one
WithSlash(dirname) == IF dirname[Len(dirname)] # "/" THEN Append(dirname, "/") ELSE dirname

\* the template t of tempFileForWrite
Template(tt) ==
    WithSlash(tempFileDirectory) \o TempPrefixes[tt + 1]
        \o <<"X", "X", "X", "X", "X", "X">> \o TempSuffixes[tt + 1]

\* a template with its XXXXXX replaced
Fill(t, suffixLen, rand) ==
    SubSeq(t, 1, Len(t) - suffixLen - 6) \o rand \o SubSeq(t, Len(t) - suffixLen + 1, Len(t))

Exists(path) == <<DirOf(path), BaseOf(path)>> \in files

\* mkstemps(template, suffixlen): creates, exclusively and in one step, a file
\* whose name did not exist: the name drawn first if it is free, another free
\* one otherwise; -1 when the directory admits no new entry, no name is free
\* or the system is out of resources (resourcesOk)
mkstempsNotExclusive(t, suffixLen, rand, resourcesOk) ==
    IF resourcesOk /\ Writable(DirOf(t))
    THEN [fd |-> 3, path |-> Fill(t, suffixLen, rand)]
    ELSE [fd |-> -1, path |-> t]
mkstemps(t, suffixLen, rand, resourcesOk) ==
    LET free == {r \in RandNames : ~Exists(Fill(t, suffixLen, r))}
        pick == IF rand \in free THEN rand ELSE CHOOSE r \in free : TRUE
    IN  IF resourcesOk /\ Writable(DirOf(t)) /\ free # {}
        THEN [fd |-> 3, path |-> Fill(t, suffixLen, pick)]
        ELSE [fd |-> -1, path |-> t]

\* history of tempFileForWrite: the paths reported through nameOut, those
\* reported by more than one call, the types that succeeded, the number of
\* calls, and whether two calls for one type were in progress together
NoCreated == [paths |-> {}, twice |-> {}, types |-> {}, calls |-> 0, overlapped |-> FALSE]

\* tempFileForWrite up to the call of mkstemps
TempBegin(p, tt) ==
    /\ exited = 0 /\ tpc[p] = "idle" /\ created.calls < MaxCreates
    /\ tpc' = [tpc EXCEPT ![p] = "mkstemps"]
    /\ ttype' = [ttype EXCEPT ![p] = tt]
    /\ tmpl' = [tmpl EXCEPT ![p] = Template(tt)]
    /\ stream' = [stream EXCEPT ![p] = "null"]
    /\ created' = [created EXCEPT
                     !.calls = @ + 1,
                     !.overlapped = @ \/ \E q \in Procs \ {p} :
                                            tpc[q] = "mkstemps" /\ ttype[q] = tt]
    /\ UNCHANGED <<normVars, env, before, platform, files, tfd, nameOut, found, deleted,
                   dirResult, probe>>

\* mkstemps and the rest of tempFileForWrite
TempCreate(p, rand, resourcesOk) ==
    /\ exited = 0 /\ tpc[p] = "mkstemps"
    /\ LET r == mkstemps(tmpl[p], Len(TempSuffixes[ttype[p] + 1]), rand, resourcesOk)
       IN  /\ tfd' = [tfd EXCEPT ![p] = r.fd]
           /\ IF r.fd # -1
              THEN /\ files' = files \cup {<<DirOf(r.path), BaseOf(r.path)>>}
                   /\ stream' = [stream EXCEPT ![p] = "open"]
                   /\ nameOut' = [nameOut EXCEPT ![p] = r.path]
                   /\ created' = [created EXCEPT
                                    !.paths = @ \cup {r.path},
                                    !.twice = IF r.path \in created.paths
                                              THEN @ \cup {r.path} ELSE @,
                                    !.types = @ \cup {ttype[p]}]
                   /\ found' = [fresh |-> FALSE, list |-> {}]
              ELSE UNCHANGED <<files, stream, nameOut, created, found>>
    /\ tpc' = [tpc EXCEPT ![p] = "return"]
    /\ UNCHANGED <<normVars, env, before, platform, ttype, tmpl, deleted, dirResult, probe>>

\* the caller takes the stream and the name
TempReturn(p) ==
    /\ exited = 0 /\ tpc[p] = "return"
    /\ tpc' = [tpc EXCEPT ![p] = "idle"]
    /\ ttype' = [ttype EXCEPT ![p] = 0]
    /\ tmpl' = [tmpl EXCEPT ![p] = <<>>]
    /\ tfd' = [tfd EXCEPT ![p] = -1]
    /\ stream' = [stream EXCEPT ![p] = "null"]
    /\ nameOut' = [nameOut EXCEPT ![p] = <<>>]
    /\ UNCHANGED <<normVars, env, before, platform, files, created, found, deleted,
                   dirResult, probe>>

\* remove(name.c_str())
remove(name) ==
    IF Exists(name) /\ Writable(DirOf(name)) THEN 0 ELSE -1

\* PosixSystem::deleteTempFile
DeleteTempFile(name) ==
    /\ exited = 0
    /\ deleted' = [called |-> TRUE, existed |-> Exists(name), rc |-> remove(name)]
    /\ files' = IF remove(name) = 0 THEN files \ {<<DirOf(name), BaseOf(name)>>} ELSE files
    /\ found' = [fresh |-> FALSE, list |-> {}]
    /\ UNCHANGED <<normVars, env, before, platform, tpc, ttype, tmpl, tfd, stream, nameOut,
                   created, dirResult, probe>>

\* std::strncmp(TempPrefixAll, der->d_name, len) == 0
IsTempNameAny(d_name) == TRUE
IsTempName(d_name) == HasPrefix(TempPrefixAll, d_name)

\* what findTempFiles returns
findTempFiles ==
    LET dirname == tempFileDirectory
    IN  IF ~Readable(StripSlash(dirname)) THEN {}
        ELSE {WithSlash(dirname) \o e[2] :
                 e \in {f \in files : f[1] = StripSlash(dirname) /\ IsTempName(f[2])}}

\* PosixSystem::findTempFiles
FindTempFiles ==
    /\ exited = 0
    /\ found' = [fresh |-> TRUE, list |-> findTempFiles]
    /\ UNCHANGED <<normVars, env, before, platform, files, tpc, ttype, tmpl, tfd, stream,
                   nameOut, created, deleted, dirResult, probe>>

-----------------------------------------------------------------------------
(* PosixSystem::getPhysicalMemory *)

\* std::uint64_t is modelled with this many bits
WordBits == 12
\* the largest page count sysconf reports, the largest sysctl value in pages
MaxPages == 40

UInt64(x) == x % (2 ^ WordBits)

\* AbstractSystem::MaximumMemory, on the scale of WordBits
MaximumMemory == 2 ^ 7

\* the branches the preprocessor can select
Platforms == {"NOSYSCTL", "linux", "linux_no_sysconf", "no_CTL_HW", "sysctl", "no_selector"}

PageCounts == {-1} \cup 0..MaxPages
PageSizes == {-1, 16}
SysctlValues == {16 * k : k \in 0..MaxPages}

\* if (size > MaximumMemory) size = MaximumMemory;
ClampNever(size) == size
Clamp(size) == IF size > MaximumMemory THEN MaximumMemory ELSE size

\* the value getPhysicalMemory returns: on Linux from the two sysconf
\* results, elsewhere from sysctl's return code and the value it stored
getPhysicalMemory(plat, pages, pagesize, rc, value) ==
    CASE plat = "NOSYSCTL"         -> 0
      [] plat = "linux"            -> Clamp(UInt64(UInt64(pages) * UInt64(pagesize)))
      [] plat = "linux_no_sysconf" -> 0
      [] plat = "no_CTL_HW"        -> 0
      [] plat = "no_selector"      -> 0
      [] plat = "sysctl"           -> IF rc = 0 THEN Clamp(UInt64(value)) ELSE 0

NoProbe == [called |-> FALSE, mechanism |-> FALSE, ok |-> FALSE, bytes |-> 0, result |-> 0]

\* a call of getPhysicalMemory; the record keeps what the platform reported
GetPhysicalMemory(pages, pagesize, rc, value) ==
    /\ exited = 0
    /\ probe' = [called    |-> TRUE,
                 mechanism |-> platform \in {"linux", "sysctl"},
                 ok        |-> IF platform = "linux" THEN pages >= 0 /\ pagesize >= 0
                               ELSE platform = "sysctl" /\ rc = 0,
                 bytes     |-> IF platform = "linux" THEN pages * pagesize
                               ELSE IF platform = "sysctl" THEN value ELSE 0,
                 result    |-> getPhysicalMemory(platform, pages, pagesize, rc, value)]
    /\ UNCHANGED <<normVars, env, before, platform, tempVars, dirResult>>

-----------------------------------------------------------------------------
(* Initial states and specifications *)

NoEnv == [TMPDIR |-> <<>>, TEMP |-> <<>>, TMP |-> <<>>]

\* entries other programs left in the temp directory
OldEntries == {<<"c", "f", "d", "g", "-", "t", "e", "m", "p", "-", "o", "l", "d">>,
               <<"n", "o", "t", "e", "s">>}

\* nobody is inside a temp-file operation, nothing was probed
Quiet ==
    /\ files = before
    /\ tpc = [p \in Procs |-> "idle"]
    /\ ttype = [p \in Procs |-> 0]
    /\ tmpl = [p \in Procs |-> <<>>]
    /\ tfd = [p \in Procs |-> -1]
    /\ stream = [p \in Procs |-> "null"]
    /\ nameOut = [p \in Procs |-> <<>>]
    /\ created = NoCreated
    /\ found = [fresh |-> FALSE, list |-> {}]
    /\ deleted = [called |-> FALSE, existed |-> FALSE, rc |-> 0]
    /\ dirResult = <<>>
    /\ probe = NoProbe

\* normalize() on one object, calls one after the other, on every build
InitNorm ==
    /\ layout \in Layouts
    /\ env = NoEnv
    /\ before = {}
    /\ platform = "linux"
    /\ Constructed
    /\ Quiet

NextNorm ==
    \/ \E s \in Inputs, convOk \in BOOLEAN, normOk \in BOOLEAN : NormalizeBegin(s, convOk, normOk)
    \/ \E fail \in BOOLEAN : DecodeStep(fail)
    \/ \E fail \in BOOLEAN : NfkcStep(fail)
    \/ Destroy

SpecNorm == InitNorm /\ [][NextNorm]_vars

\* a thread inside normalize() keeps running
SpecNormFair ==
    /\ InitNorm /\ [][NextNorm]_vars
    /\ WF_vars(\E fail \in BOOLEAN : DecodeStep(fail))
    /\ WF_vars(\E fail \in BOOLEAN : NfkcStep(fail))

\* tempFileDirectory() under every environment
InitDir ==
    /\ layout = "w32le"
    /\ env \in [{"TMPDIR", "TEMP", "TMP"} -> EnvValues]
    /\ before = {}
    /\ platform = "linux"
    /\ Constructed
    /\ Quiet

NextDir == ResolveDir

SpecDir == InitDir /\ [][NextDir]_vars

\* the temp directories of the temp-file runs: the fallback, a directory
\* spelled without separator, and one that cannot be listed
TempEnvs == {[NoEnv EXCEPT !.TMPDIR = v] : v \in {<<>>, << <<"/", "a">> >>, << <<"/", "w">> >>}}

\* callers of tempFileForWrite and findTempFiles sharing one temp directory
\* that other programs left entries in
InitTemp ==
    /\ layout = "w32le"
    /\ env \in TempEnvs
    /\ before = {<<StripSlash(tempFileDirectory), e>> : e \in OldEntries}
    /\ platform = "linux"
    /\ Constructed
    /\ Quiet

NextTemp ==
    \/ \E p \in Procs, tt \in TempTypes : TempBegin(p, tt)
    \/ \E p \in Procs, rand \in RandNames, resourcesOk \in BOOLEAN : TempCreate(p, rand, resourcesOk)
    \/ \E p \in Procs : TempReturn(p)
    \/ FindTempFiles

SpecTemp == InitTemp /\ [][NextTemp]_vars

\* getPhysicalMemory() on every build
InitMem ==
    /\ layout = "w32le"
    /\ env = NoEnv
    /\ before = {}
    /\ platform \in Platforms
    /\ Constructed
    /\ Quiet

NextMem ==
    \E pages \in PageCounts, pagesize \in PageSizes, rc \in {0, -1}, value \in SysctlValues :
        GetPhysicalMemory(pages, pagesize, rc, value)

SpecMem == InitMem /\ [][NextMem]_vars

\* every operation of PosixSystem in one process: short texts, one caller of
\* the temp-file operations, one temp file
InputsAll == SeqsUpTo({97, 189}, 1)

DeleteNames ==
    created.paths \cup {WithSlash(tempFileDirectory) \o e : e \in OldEntries}
                  \cup {<<"/", "x">>}

Init ==
    /\ layout = "w32le"
    /\ env \in {NoEnv, [NoEnv EXCEPT !.TMPDIR = << <<"/", "l">> >>]}
    /\ before = {<<StripSlash(tempFileDirectory), e>> : e \in OldEntries}
    /\ platform = "linux"
    /\ Constructed
    /\ Quiet

Next ==
    \/ \E s \in InputsAll, convOk \in BOOLEAN, normOk \in BOOLEAN : NormalizeBegin(s, convOk, normOk)
    \/ \E fail \in BOOLEAN : DecodeStep(fail)
    \/ \E fail \in BOOLEAN : NfkcStep(fail)
    \/ Destroy
    \/ \E tt \in TempTypes : created.calls < 1 /\ TempBegin(1, tt)
    \/ \E rand \in RandNames, resourcesOk \in BOOLEAN : TempCreate(1, rand, resourcesOk)
    \/ TempReturn(1)
    \/ \E name \in DeleteNames : DeleteTempFile(name)
    \/ FindTempFiles
    \/ \E pages \in {-1, MaxPages} : GetPhysicalMemory(pages, 16, 0, 0)

Spec == Init /\ [][Next]_vars

-----------------------------------------------------------------------------
(* Properties *)

\* the first call of a loop's transform asked for more than the buffer held
Grew(h) == h.calls >= 1 /\ h.firstSz > h.firstLen

DecodeLoopLeft == pc = "nfkc" /\ nf.calls = 0
NfkcLoopLeft == pc = "idle" /\ outcome = "returned"

\* C1, buffer-growth correctness: when the first call of a loop's transform
\* reports a size N larger than the buffer, the loop calls the transform
\* exactly twice, the second time with a buffer of N + 1 units, and leaves a
\* buffer of length N that holds the transform's complete output.
C1_BufferGrowth ==
    /\ (DecodeLoopLeft /\ Grew(dec)) =>
          /\ dec.calls = 2
          /\ dec.lastLen = dec.firstSz + 1
          /\ u16name.len = dec.firstSz
          /\ U16Text(u16name) = Utf8ToUtf16(u8name)
    /\ (NfkcLoopLeft /\ Grew(nf)) =>
          /\ nf.calls = 2
          /\ nf.lastLen = nf.firstSz + 1
          /\ ret.len = nf.firstSz
          /\ Len(ret.mem) >= nf.firstSz
          /\ SubSeq(ret.mem, 1, nf.firstSz) = Nfkc(U16Text(u16name))

\* C2 as claimed, unique creation: no path is reported by two calls of
\* tempFileForWrite, and every call returns a non-null stream.
C2_AllCallsSucceed ==
    /\ created.twice = {}
    /\ \A p \in Procs : tpc[p] = "return" => stream[p] = "open"

\* C2, unique creation: no path is reported by two calls of
\* tempFileForWrite, however the calls interleave; a call returns a non-null
\* stream exactly when mkstemps created a file, and then nameOut names that
\* file; two callers holding streams hold different paths.
C2_UniqueCreation ==
    /\ created.twice = {}
    /\ \A p \in Procs : tpc[p] = "return" =>
          /\ stream[p] = "open" <=> tfd[p] # -1
          /\ stream[p] = "open" => nameOut[p] \in created.paths /\ Exists(nameOut[p])
          /\ stream[p] = "null" => nameOut[p] = <<>>
    /\ \A p, q \in Procs :
          (p # q /\ tpc[p] = "return" /\ tpc[q] = "return"
                 /\ stream[p] = "open" /\ stream[q] = "open") => nameOut[p] # nameOut[q]

\* two calls for one temp type overlapped and both returned a stream
C2_Witness ==
    \E p, q \in Procs :
        /\ p # q /\ created.overlapped
        /\ tpc[p] = "return" /\ tpc[q] = "return" /\ ttype[p] = ttype[q]
        /\ stream[p] = "open" /\ stream[q] = "open"

\* the paths of the entries that were in the temp directory at the start
BeforePaths == {WithSlash(tempFileDirectory) \o e[2] : e \in before}

Listing(list) ==
    /\ created.paths \subseteq list
    /\ list \subseteq created.paths \cup BeforePaths
    /\ \A e \in list : HasPrefix(TempPrefixAll, BaseOf(e))

\* C3 as claimed, registry completeness: once tempFileForWrite has succeeded
\* for every TempType, findTempFiles returns every reported path, nothing
\* that is neither such a path nor an entry present before, and only names
\* that begin with TempPrefixAll.
C3_AlwaysListed ==
    (found.fresh /\ created.types = TempTypes) => Listing(found.list)

\* C3, registry completeness: the same, provided the temp directory can be
\* opened for reading; if it cannot, findTempFiles returns the empty list.
C3_RegistryCompleteness ==
    /\ (found.fresh /\ created.types = TempTypes /\ Readable(StripSlash(tempFileDirectory)))
          => Listing(found.list)
    /\ (found.fresh /\ ~Readable(StripSlash(tempFileDirectory))) => found.list = {}

\* every type was created in a listable directory that held older entries
C3_Witness ==
    /\ found.fresh /\ created.types = TempTypes
    /\ Readable(StripSlash(tempFileDirectory))
    /\ tempFileDirectory = <<"/", "a">>
    /\ found.list # created.paths

\* the first of TMPDIR, TEMP, TMP that is set and names a directory
FirstUsable ==
    LET order == <<"TMPDIR", "TEMP", "TMP">>
        good  == {i \in 1..3 : env[order[i]] # <<>> /\ IsDir(env[order[i]][1])}
    IN  IF good = {} THEN <<>>
        ELSE <<env[order[CHOOSE i \in good : \A j \in good : i <= j]][1]>>

\* C4, directory fallback order: tempFileDirectory returns the value of the
\* first of TMPDIR, TEMP, TMP that is set and names an existing directory,
\* "/tmp/" when there is none, and never the empty string.
C4_FallbackOrder ==
    dirResult # <<>> =>
        /\ dirResult[1] = (IF FirstUsable = <<>> THEN FallbackDir ELSE FirstUsable[1])
        /\ dirResult[1] # <<>>
        /\ (env.TMPDIR # <<>> /\ IsDir(env.TMPDIR[1])) => dirResult[1] = env.TMPDIR[1]

\* TMPDIR names a regular file, TEMP is unset, TMP names a directory
C4_Witness ==
    /\ dirResult = << <<"/", "a">> >>
    /\ env.TMPDIR = << <<"/", "f">> >> /\ env.TEMP = <<>> /\ env.TMP = << <<"/", "a">> >>

\* C5, memory clamp: getPhysicalMemory never returns more than
\* MaximumMemory; when the platform reports a byte count, the result is
\* MaximumMemory if the count exceeds it and the count itself otherwise;
\* with no mechanism compiled in the result is zero.
C5_MemoryClamp ==
    probe.called =>
        /\ probe.result <= MaximumMemory
        /\ (probe.ok /\ probe.bytes > MaximumMemory) => probe.result = MaximumMemory
        /\ (probe.ok /\ probe.bytes <= MaximumMemory) => probe.result = probe.bytes
        /\ ~probe.mechanism => probe.result = 0

\* a Linux build reported more than the ceiling
C5_Witness ==
    /\ platform = "linux" /\ probe.called /\ probe.ok
    /\ probe.bytes > MaximumMemory /\ probe.result = MaximumMemory

\* C6, memory probe failure: when the platform query fails at run time,
\* getPhysicalMemory returns zero.
C6_FailureIsZero ==
    (probe.called /\ probe.mechanism /\ ~probe.ok) => probe.result = 0

\* C7, fatal only for engines: the process exits, with status 33, exactly
\* when an engine could not be constructed in normalize; a transform's
\* failure other than overflow ends normalize with a conversion error and no
\* string; a failed mkstemps gives a null stream; a failed deletion gives a
\* non-zero result; an unreadable temp directory gives an empty list.
C7_FatalOnlyForEngines ==
    /\ exited \in {0, 33}
    /\ exited = 33 <=> icu.failed
    /\ (pc = "idle" /\ calls > 0 /\ exited = 0) =>
          (status = "U_MEMORY_ALLOCATION_ERROR" <=> outcome = "error")
    /\ outcome = "error" => result = <<>>
    /\ \A p \in Procs : (tpc[p] = "return" /\ tfd[p] = -1) => stream[p] = "null"
    /\ deleted.called => (deleted.rc # 0 <=> ~(deleted.existed /\ Writable(StripSlash(tempFileDirectory))))
    /\ (found.fresh /\ ~Readable(StripSlash(tempFileDirectory))) => found.list = {}

\* the process exited after a deletion and a probe had failed without harm
C7_Witness ==
    /\ exited = 33 /\ icu.failed
    /\ deleted.called /\ deleted.rc # 0
    /\ probe.called

\* C8, idempotent canonicalization: for a text already in NFKC form,
\* normalize returns the wide string of the same characters.
C8_Idempotent ==
    (NfkcLoopLeft /\ Nfkc(src) = src) => result = Widen(src)

\* C9 as claimed, engine lifecycle: each engine is constructed on the first
\* call and not again, not at all without a call, and each constructed
\* engine is released exactly once, at destruction.
C9_BothReleased ==
    /\ icu.opens <= 1 /\ icu.gets <= 1
    /\ calls = 0 => (icu.opens = 0 /\ icu.gets = 0)
    /\ alive => (icu.closes = 0 /\ icu.releases = 0)
    /\ ~alive => (icu.closes = icu.opens /\ icu.releases = icu.gets)

\* C9, engine lifecycle: each engine is constructed on the first call and not
\* again, not at all without a call; the converter is closed exactly once,
\* at destruction, and is open whenever a transform runs; the NFKC
\* normalizer, ICU's singleton, is never released.
C9_Lifecycle ==
    /\ icu.opens <= 1 /\ icu.gets <= 1
    /\ calls = 0 => (icu.opens = 0 /\ icu.gets = 0)
    /\ (calls > 0 /\ exited = 0) => (icu.opens = 1 /\ icu.gets = 1)
    /\ alive => icu.closes = 0
    /\ ~alive => icu.closes = icu.opens
    /\ icu.releases = 0
    /\ pc \in {"decode", "nfkc"} => (alive /\ mConverter = "open" /\ mNormalizer = "nfkc")

\* the object was destroyed after two calls
C9_Witness ==
    ~alive /\ calls = 2 /\ icu.opens = 1 /\ icu.closes = 1 /\ icu.gets = 1

====
